---- MODULE Spec2Model ----
(***************************************************************************)
(* The artwork identification core of ArtScope (pran-avk/realmeta):        *)
(* the geofence evaluator (core/geolocation_utils.py), the lightweight     *)
(* fingerprint engine (embeddings/mobilenet_engine.py) and the scan        *)
(* resolver scan_artwork_combined (api/views.py), with the legacy          *)
(* scan_artwork endpoint next to it.                                       *)
(*                                                                         *)
(* Numbers.  Python floats are modelled by exact rationals [n, d] in       *)
(* lowest terms (d > 0); rounding error of IEEE arithmetic is not          *)
(* modelled.  Coordinates are integer grid steps; the geopy geodesic is    *)
(* modelled by a grid metric in metres (symmetric, zero exactly between    *)
(* equal points).  An image is a short list of RGB pixels standing for     *)
(* the 256x256 resized picture.                                            *)
(***************************************************************************)
EXTENDS Integers, Sequences, FiniteSets, TLC

(***************************************************************************)
(* Bounds of the model                                                     *)
(***************************************************************************)
\* pixels of a (resized) image
NPix == 20
\* metres between two neighbouring grid coordinates
MetersPerStep == 50
\* longest catalogue whose artworks are drawn from every profile
MaxArtworks == 2
\* longest catalogue of scannable artworks (all in range of the visitor)
WideArtworks == 5
\* visitor sessions the legacy endpoint may create
MaxSessions == 1
\* scans counted on one visitor session
MaxScans == 1
\* artworks uploaded to a catalogue that starts empty
MaxUploads == 2
\* saves on the call stack that are followed
MaxNesting == 3

(***************************************************************************)
(* Program constants                                                       *)
(***************************************************************************)
\* generate_color_histogram(image_input, bins=32)
Bins == 32
\* "Max distance is 256 (16x16 hash), so normalize"
HashBits == 256

(***************************************************************************)
(* Python values                                                           *)
(***************************************************************************)
\* None / NULL, and a present value, as 0- and 1-element tuples
None == <<>>
Some(x) == <<x>>
IsNone(o) == o = <<>>
Val(o) == o[1]

Abs(x) == IF x < 0 THEN -x ELSE x
Min2(a, b) == IF a <= b THEN a ELSE b

RECURSIVE GCD(_, _)
GCD(a, b) == IF b = 0 THEN a ELSE GCD(b, a % b)

\* the rational n/d (d > 0) in lowest terms
Rat(n, d) == LET g == GCD(Abs(n), d) IN [n |-> n \div g, d |-> d \div g]
Zero == Rat(0, 1)
One == Rat(1, 1)
RLt(a, b) == a.n * b.d < b.n * a.d
RLe(a, b) == a.n * b.d <= b.n * a.d
RGt(a, b) == RLt(b, a)
RAdd(a, b) == Rat(a.n * b.d + b.n * a.d, a.d * b.d)
RMul(a, b) == Rat(a.n * b.n, a.d * b.d)

\* the sum of s[lo..hi], by halves
RECURSIVE SumRange(_, _, _)
SumRange(s, lo, hi) ==
    IF lo > hi THEN 0
    ELSE IF lo = hi THEN s[lo]
    ELSE SumRange(s, lo, (lo + hi) \div 2) + SumRange(s, (lo + hi) \div 2 + 1, hi)
SumSeq(s) == SumRange(s, 1, Len(s))

(***************************************************************************)
(* Images: preprocess_image, generate_color_histogram,                     *)
(* generate_perceptual_hash, generate_embedding                            *)
(***************************************************************************)
\* An uploaded or stored image file: readable or not, and, when readable, a
\* picture whose first `bright` pixels are white and whose others are black.
ImageFile(ok, bright) == [ok |-> ok, bright |-> bright]

\* preprocess_image with an except branch that does not re-raise
preprocess_raises_Never(file) == FALSE

\* preprocess_image: the decoded, RGB, resized picture; raises on unreadable data
preprocess_raises(file) == ~file.ok
preprocess_image(file) ==
    [i \in 1..NPix |-> IF i <= file.bright THEN <<255, 255, 255>> ELSE <<0, 0, 0>>]

\* np.histogram(channel, bins=Bins, range=(0, 256))[0]
channel_histogram(img, c) ==
    [b \in 1..Bins |->
        Cardinality({i \in 1..NPix : (img[i][c] * Bins) \div 256 = b - 1})]

\* A numeric vector: element i is num[i]/den.
Vec(num, den) == [num |-> num, den |-> den]

\* generate_color_histogram: the three channel histograms concatenated and
\* divided by the sum of the whole vector
generate_color_histogram(file) ==
    LET img  == preprocess_image(file)
        hist == channel_histogram(img, 1) \o channel_histogram(img, 2)
                    \o channel_histogram(img, 3)
    IN  Vec(hist, SumSeq(hist))

\* imagehash.phash / dhash / whash (hash_size=16) of the picture, each as the
\* set of its 1-bits among HashBits positions: brightness, horizontal gradient
\* and mean-relative brightness of the pixels.
Luma(px) == px[1] + px[2] + px[3]
generate_perceptual_hash(file) ==
    LET img == preprocess_image(file)
        mean == SumSeq([i \in 1..NPix |-> Luma(img[i])]) \div NPix
    IN  << {i \in 1..NPix : Luma(img[i]) > 382},
           {i \in 1..(NPix - 1) : Luma(img[i]) > Luma(img[i + 1])},
           {i \in 1..NPix : Luma(img[i]) > mean} >>

\* Embedding values as the code sees them.  kind is "none" (None / NULL),
\* "dict" ({'hash', 'histogram'}), "list" (a list of floats), "ndarray"
\* (a 1-d numpy array) or "object0d" (np.array of a dict or of None: a 0-d
\* object array).  hash is the triple of hashes, or <<>> for ''.
Emb(kind, hash, num, den) == [kind |-> kind, hash |-> hash, num |-> num, den |-> den]
NoEmbedding == Emb("none", <<>>, <<>>, 1)

\* generate_embedding: {'hash': ..., 'histogram': histogram.tolist()}
generate_embedding_raises(file) == preprocess_raises(file)
generate_embedding(file) ==
    LET h == generate_color_histogram(file)
    IN  Emb("dict", generate_perceptual_hash(file), h.num, h.den)

\* np.array(value)
np_array(e) ==
    IF e.kind \in {"list", "ndarray"}
    THEN Emb("ndarray", <<>>, e.num, e.den)
    ELSE Emb("object0d", <<>>, <<>>, 1)

(***************************************************************************)
(* Similarity: compute_hash_similarity, compute_histogram_similarity,      *)
(* compute_similarity                                                      *)
(***************************************************************************)
\* the distance counting only the bits of the first hash missing in the second
Hamming_OneSided(a, b) == Cardinality(a \ b)

\* imagehash's h1 - h2: the number of differing bits
Hamming(a, b) == Cardinality((a \ b) \cup (b \ a))

\* compute_hash_similarity: 1 - (average of the three distances) / 256,
\* clamped to [0, 1]
compute_hash_similarity(hash1, hash2) ==
    LET pdist == Hamming(hash1[1], hash2[1])
        ddist == Hamming(hash1[2], hash2[2])
        wdist == Hamming(hash1[3], hash2[3])
        similarity == Rat(3 * HashBits - (pdist + ddist + wdist), 3 * HashBits)
    IN  IF RLt(similarity, Zero) THEN Zero
        ELSE IF RGt(similarity, One) THEN One
        ELSE similarity

\* the histogram taken as it comes, not normalized
NormalizeIfPositive_Skipped(h) == h

\* h / h.sum() when h.sum() > 0, else h unchanged
NormalizeIfPositive(h) ==
    LET s == SumSeq(h.num) IN IF s > 0 THEN Vec(h.num, s) ELSE Vec(h.num, h.den)

\* numpy broadcasting of two 1-d arrays: equal lengths, or one of length 1
Broadcastable(n1, n2) == n1 = n2 \/ n1 = 1 \/ n2 = 1
BAt(num, i) == IF Len(num) = 1 THEN num[1] ELSE num[i]

\* compute_histogram_similarity: np.minimum(h1, h2).sum() of the two vectors,
\* each normalized when its sum is positive; 0.0 when numpy raises
compute_histogram_similarity(hist1, hist2) ==
    LET h1 == NormalizeIfPositive(hist1)
        h2 == NormalizeIfPositive(hist2)
        n  == IF Len(h1.num) >= Len(h2.num) THEN Len(h1.num) ELSE Len(h2.num)
    IN  IF ~Broadcastable(Len(h1.num), Len(h2.num)) THEN Zero
        ELSE Rat(SumSeq([i \in 1..n |->
                     Min2(BAt(h1.num, i) * h2.den, BAt(h2.num, i) * h1.den)]),
                 h1.den * h2.den)

\* embedding.get('hash', '') of a dict, '' of the legacy format
HashOf(e) == IF e.kind = "dict" THEN e.hash ELSE <<>>
\* len(hist) raises TypeError on None and on a 0-d array
LenRaises(e) == e.kind \in {"none", "object0d"}
HistLen(e) == Len(e.num)

\* compute_similarity ends in its except branch: len() of None or of a 0-d
\* array raises TypeError (hist2 is reached only when len(hist1) > 0)
compute_similarity_raises(embedding1, embedding2) ==
    \/ LenRaises(embedding1)
    \/ (HistLen(embedding1) > 0 /\ LenRaises(embedding2))

\* the weighted average with the two weights exchanged
WeightedAverage_Swapped(hash_sim, hist_sim) ==
    RAdd(RMul(Rat(4, 10), hash_sim), RMul(Rat(6, 10), hist_sim))

\* similarity = 0.6 * hash_sim + 0.4 * hist_sim
WeightedAverage(hash_sim, hist_sim) ==
    RAdd(RMul(Rat(6, 10), hash_sim), RMul(Rat(4, 10), hist_sim))

\* the combination as the plain sum of the two components
Combine_Sum(hashes, hists, hash_sim, hist_sim) == RAdd(hash_sim, hist_sim)

\* the combination with the weights applied whatever is comparable
Combine_AlwaysWeighted(hashes, hists, hash_sim, hist_sim) ==
    WeightedAverage(hash_sim, hist_sim)

\* the if/elif chain of compute_similarity: both components, the hashes
\* alone, the histograms alone, or 0.0
Combine(hashes, hists, hash_sim, hist_sim) ==
    IF hashes /\ hists THEN WeightedAverage(hash_sim, hist_sim)
    ELSE IF hashes THEN hash_sim
    ELSE IF hists THEN hist_sim
    ELSE Zero

\* compute_similarity: the weighted combination, one component alone when
\* only one is comparable, 0.0 when none is or when anything raises
compute_similarity(embedding1, embedding2) ==
    LET hash1 == HashOf(embedding1)
        hash2 == HashOf(embedding2)
        hashes == hash1 /= <<>> /\ hash2 /= <<>>
        hists == HistLen(embedding1) > 0 /\ HistLen(embedding2) > 0
        hash_sim == IF hashes THEN compute_hash_similarity(hash1, hash2) ELSE Zero
        hist_sim == IF hists
                    THEN compute_histogram_similarity(
                             Vec(embedding1.num, embedding1.den),
                             Vec(embedding2.num, embedding2.den))
                    ELSE Zero
    IN  IF compute_similarity_raises(embedding1, embedding2) THEN Zero
        ELSE Combine(hashes, hists, hash_sim, hist_sim)

(***************************************************************************)
(* Geofence: check_geofence                                                *)
(***************************************************************************)
\* geodesic(a, b).meters on the coordinate grid
geodesic(lat1, lon1, lat2, lon2) ==
    MetersPerStep * (Abs(lat1 - lat2) + Abs(lon1 - lon2))

\* all([user_lat, user_lon, artwork_lat, artwork_lon]): every value truthy
\* (a float is truthy unless it is 0.0)
AllTruthy(user_lat, user_lon, artwork_lat, artwork_lon) ==
    user_lat /= 0 /\ user_lon /= 0 /\ artwork_lat /= 0 /\ artwork_lon /= 0

\* check_geofence with the comparison the wrong way round
check_geofence_Outside(user_lat, user_lon, artwork_lat, artwork_lon, radius_meters) ==
    IF ~AllTruthy(user_lat, user_lon, artwork_lat, artwork_lon)
    THEN [is_accessible |-> FALSE, distance |-> None]
    ELSE LET distance == geodesic(user_lat, user_lon, artwork_lat, artwork_lon)
         IN  [is_accessible |-> distance >= radius_meters,
              distance |-> Some(distance)]

\* check_geofence with a strict comparison
check_geofence_Strict(user_lat, user_lon, artwork_lat, artwork_lon, radius_meters) ==
    IF ~AllTruthy(user_lat, user_lon, artwork_lat, artwork_lon)
    THEN [is_accessible |-> FALSE, distance |-> None]
    ELSE LET distance == geodesic(user_lat, user_lon, artwork_lat, artwork_lon)
         IN  [is_accessible |-> distance < radius_meters,
              distance |-> Some(distance)]

\* check_geofence: (is_accessible, distance_meters), or (False, None)
check_geofence(user_lat, user_lon, artwork_lat, artwork_lon, radius_meters) ==
    IF ~AllTruthy(user_lat, user_lon, artwork_lat, artwork_lon)
    THEN [is_accessible |-> FALSE, distance |-> None]
    ELSE LET distance == geodesic(user_lat, user_lon, artwork_lat, artwork_lon)
         IN  [is_accessible |-> distance <= radius_meters,
              distance |-> Some(distance)]

(***************************************************************************)
(* The catalogue (core/models.py, Artwork) and the requests                *)
(***************************************************************************)
\* One Artwork row: the columns the scanning endpoints read.
Artwork(id, museum, is_on_display, latitude, longitude, radius, embedding) ==
    [id |-> id, museum |-> museum, is_on_display |-> is_on_display,
     latitude |-> latitude, longitude |-> longitude,
     geofence_radius_meters |-> radius, embedding |-> embedding]

\* A stored embedding in the legacy format: the histogram list of a picture
LegacyEmbedding(bright) ==
    LET h == generate_color_histogram(ImageFile(TRUE, bright))
    IN  Emb("list", <<>>, h.num, h.den)
\* A stored embedding that is a dict fingerprint of a picture
DictEmbedding(bright) ==
    LET e == generate_embedding(ImageFile(TRUE, bright))
    IN  Emb("dict", e.hash, e.num, e.den)
\* A stored CLIP vector (embeddings/tasks.py: embedding.tolist()).  Five
\* components stand for the 512 of ViT-B/32.
ClipEmbedding(vector) == Emb("list", <<>>, vector, 20)
ForeignEmbedding == ClipEmbedding(<< 14, 14, 2, 2, 0 >>)

\* Rows of every kind: scannable ones, and ones a scan has to leave out.
\* The id is given by the position in the catalogue.
Profiles ==
    { Artwork(0, "M1", TRUE,  Some(1),  Some(1), 50,  LegacyEmbedding(1)),
      Artwork(0, "M1", TRUE,  Some(1),  Some(1), 50,  LegacyEmbedding(6)),
      Artwork(0, "M1", TRUE,  Some(-1), Some(1), 100, LegacyEmbedding(2)),
      Artwork(0, "M1", TRUE,  Some(0),  Some(1), 50,  LegacyEmbedding(0)),
      Artwork(0, "M1", TRUE,  None,     Some(1), 50,  LegacyEmbedding(0)),
      Artwork(0, "M1", TRUE,  Some(1),  None,    50,  LegacyEmbedding(0)),
      Artwork(0, "M1", FALSE, Some(1),  Some(1), 50,  LegacyEmbedding(0)),
      Artwork(0, "M1", TRUE,  Some(1),  Some(1), 50,  NoEmbedding),
      Artwork(0, "M1", TRUE,  Some(1),  Some(1), 50,  DictEmbedding(0)),
      Artwork(0, "M1", TRUE,  Some(1),  Some(1), 50,  ForeignEmbedding),
      Artwork(0, "M2", TRUE,  Some(1),  Some(1), 100, LegacyEmbedding(13)) }

\* Scannable rows that differ in their stored picture only
WideProfiles ==
    { Artwork(0, "M1", TRUE, Some(1), Some(1), 50, LegacyEmbedding(1)),
      Artwork(0, "M1", TRUE, Some(1), Some(1), 50, LegacyEmbedding(2)),
      Artwork(0, "M1", TRUE, Some(1), Some(1), 50, LegacyEmbedding(13)) }

\* Rows for the two scanning endpoints side by side: CLIP vectors, which the
\* legacy endpoint compares, and histogram lists, which the combined one does
EndpointProfiles ==
    { Artwork(0, "M1", TRUE, Some(1), Some(1), 50, ClipEmbedding(<< 20, 0, 0, 0, 0 >>)),
      Artwork(0, "M1", TRUE, Some(1), Some(1), 50, ClipEmbedding(<< 15, 10, 5, 5, 5 >>)),
      Artwork(0, "M1", TRUE, Some(1), Some(1), 50, ForeignEmbedding),
      Artwork(0, "M1", TRUE, Some(1), Some(1), 50, LegacyEmbedding(13)),
      Artwork(0, "M2", TRUE, Some(1), Some(1), 50, LegacyEmbedding(6)),
      Artwork(0, "M2", TRUE, Some(1), Some(1), 50, LegacyEmbedding(0)) }

\* The rows in the order of Artwork.objects (Meta.ordering), ids 1..n
WithIds(rows) == [i \in 1..Len(rows) |-> [rows[i] EXCEPT !.id = i]]
EndpointCatalogues ==
    UNION { {WithIds(rows) : rows \in [1..n -> EndpointProfiles]} :
                n \in 0..MaxArtworks }
Catalogues ==
    UNION { {WithIds(rows) : rows \in [1..n -> Profiles]} : n \in 0..MaxArtworks }
    \cup
    UNION { {WithIds(rows) : rows \in [1..n -> WideProfiles]} :
                n \in (MaxArtworks + 1)..WideArtworks }

\* request.FILES['image'] and request.data: a missing key is None, a form
\* value is a string
ImageUploads == { None, Some(ImageFile(FALSE, 0)),
                  Some(ImageFile(TRUE, 0)), Some(ImageFile(TRUE, 10)) }
LatitudeValues == { None, Some(""), Some("abc"), Some("0"), Some("1"), Some("2") }
LongitudeValues == { None, Some("0"), Some("1") }
MuseumValues == { None, Some("M1") }

\* CLIP's encode_image, a network outside the repository: some vector for
\* each picture (dark pictures one way, bright ones another)
encode_image(file) ==
    IF 2 * file.bright < NPix THEN << 20, 0, 0, 0, 0 >> ELSE << 0, 20, 0, 0, 0 >>

Dot(a, b) == SumSeq([i \in 1..Len(a) |-> a[i] * b[i]])
\* np.linalg.norm; the vectors of the model have whole-numbered norms
Norm(a) == CHOOSE n \in 0..Dot(a, a) : n * n = Dot(a, a)

\* EmbeddingEngine.generate_embedding: None without a loaded model or when
\* anything raises, else the encoding divided by its norm
EmbeddingEngine_generate_embedding(file, model_loaded) ==
    IF ~model_loaded \/ ~file.ok THEN NoEmbedding
    ELSE Emb("ndarray", <<>>, encode_image(file), Norm(encode_image(file)))

\* EmbeddingEngine.compute_similarity raises: np.dot of None, of a 0-d
\* object array, or of vectors of different lengths
EmbeddingEngine_compute_similarity_raises(embedding1, embedding2) ==
    \/ embedding1.kind /= "ndarray"
    \/ embedding2.kind /= "ndarray"
    \/ Len(embedding1.num) /= Len(embedding2.num)
\* EmbeddingEngine.compute_similarity: the cosine of the two vectors
EmbeddingEngine_compute_similarity(embedding1, embedding2) ==
    Rat(Dot(embedding1.num, embedding2.num),
        Norm(embedding1.num) * Norm(embedding2.num))

\* ndarray.tolist(); a dict and None have no such method (AttributeError)
tolist_raises(value) == value.kind /= "ndarray"
tolist(value) == Emb("list", <<>>, value.num, value.den)

\* The readable pictures that are uploaded, and the embeddings that are stored
UploadedPictures == { Val(u) : u \in { v \in ImageUploads : v /= None /\ Val(v).ok } }
StoredEmbeddings ==
    { a.embedding : a \in Profiles \cup WideProfiles \cup EndpointProfiles }
    \cup { tolist(EmbeddingEngine_generate_embedding(f, TRUE)) : f \in UploadedPictures }

\* generate_embedding and compute_similarity evaluated once for the pictures
\* and the stored embeddings of the model
Fingerprints == [file \in UploadedPictures |-> generate_embedding(file)]
Scores ==
    [q \in { Fingerprints[f] : f \in UploadedPictures },
     e \in { np_array(x) : x \in StoredEmbeddings } |-> compute_similarity(q, e)]

\* the legacy endpoint's comparison evaluated once for the pictures and the
\* stored vectors of the model
ClipQueries == { EmbeddingEngine_generate_embedding(f, TRUE) : f \in UploadedPictures }
ClipScores ==
    [q \in ClipQueries,
     e \in { np_array(x) : x \in StoredEmbeddings } |->
        IF EmbeddingEngine_compute_similarity_raises(q, e) THEN Zero
        ELSE EmbeddingEngine_compute_similarity(q, e)]

\* ScanRequestSerializer: image and museum_id required, session_id optional
ScanMuseumValues == { None, Some("M1") }
SessionIds == { None } \cup { Some(i) : i \in 1..MaxSessions }
ScanRequestSerializer_is_valid(image, museum_id) ==
    image /= None /\ Val(image).ok /\ museum_id /= None

\* float(text): the number a form value denotes; ValueError when it is none
Numerals == [text \in {"-1", "0", "1", "2"} |->
                CASE text = "-1" -> -1 [] text = "0" -> 0
                  [] text = "1" -> 1 [] text = "2" -> 2]
float_raises(text) == text \notin DOMAIN Numerals
float(text) == Numerals[text]

\* the test made on the parsed number: 0 counts as missing
Falsy_Zero(value) == value = None \/ value = Some("") \/ value = Some("0")

\* not request.data.get(key): the key is missing or its value is ''
Falsy(value) == value = None \/ value = Some("")

(***************************************************************************)
(* State                                                                   *)
(***************************************************************************)
VARIABLES
    catalogue,            \* the Artwork table, in queryset order
    phase,                \* where the scan_artwork_combined request stands
    request,              \* the request being handled
    user,                 \* user_lat, user_lon once parsed
    geo_checks,           \* what check_geofence returned for each row fetched
    accessible_artworks,  \* the rows inside their geofence, with the distance
    query_embedding,      \* the fingerprint of the uploaded picture
    similarities,         \* the scored rows, sorted
    response,             \* the Response returned
    trail,                \* the resolver states the request went through
    sessions,             \* the VisitorSession table, ids 1..n
    interactions,         \* the ArtworkInteraction table
    scan_response,        \* the Response scan_artwork returned last
    bench,                \* two fingerprints and what the scorer makes of them
    admin_response,       \* the status the staff views answered last
    probe,                \* one call of a utility function and what it returned
    handlers,             \* the session requests being handled, each with
                          \* its position and the VisitorSession it loaded
    last_save,            \* the last Artwork.save(): saves nested, raised or not
    queue,                \* the generate_artwork_embedding messages at the broker
    system_log            \* the SystemLog table

vars == << catalogue, phase, request, user, geo_checks, accessible_artworks,
           query_embedding, similarities, response, trail,
           sessions, interactions, scan_response, bench, admin_response,
           probe, handlers, last_save, queue, system_log >>
\* what only the legacy endpoint writes
legacy == << sessions, interactions, scan_response >>
\* what no endpoint touches
rest == << probe, handlers, queue, system_log >>

NoRequest == [image |-> None, latitude |-> None, longitude |-> None,
              museum_id |-> None]
NoUser == [lat |-> None, lon |-> None]

\* A Response: the HTTP status, the resolver outcome it stands for, the keys
\* of its body and the values under them.
Resp(status, outcome, keys, artwork, score, distance, confidence, others) ==
    [status |-> status, outcome |-> outcome, keys |-> keys,
     artwork |-> artwork, similarity_score |-> score,
     distance_meters |-> distance, confidence |-> confidence,
     others |-> others]
NoResponse == Resp(0, "NONE", {}, None, None, None, "", <<>>)

Terminal == {"INVALID_REQUEST", "NO_TARGETS_IN_RANGE", "NO_CONFIDENT_MATCH",
             "MATCHED", "SCAN_FAILED"}

(***************************************************************************)
(* scan_artwork_combined, step by step                                     *)
(***************************************************************************)
\* Artwork.objects.filter(is_on_display=True)[.filter(museum_id=...)]
\*     .exclude(latitude__isnull=True).exclude(longitude__isnull=True)
\*     .exclude(embedding__isnull=True)
ArtworksQueryRow(a, museum_id) ==
    /\ a.is_on_display
    /\ (museum_id /= None /\ museum_id /= Some("") => a.museum = Val(museum_id))
    /\ a.latitude /= None
    /\ a.longitude /= None
    /\ a.embedding.kind /= "none"
artworks_query(table, museum_id) ==
    SelectSeq(table, LAMBDA a : ArtworksQueryRow(a, museum_id))

\* list.sort(key=lambda x: x['similarity'], reverse=True): a stable sort.
\* The place of element i is one more than the number of elements that are
\* larger, or equal and earlier in the list.
Place(list, i) ==
    1 + Cardinality({ j \in 1..Len(list) :
                        \/ RLt(list[i].similarity, list[j].similarity)
                        \/ (list[j].similarity = list[i].similarity /\ j < i) })
\* the sort with equal elements in reversed order (an unstable sort)
SortDescending_TiesReversed(list) ==
    [k \in 1..Len(list) |->
        list[CHOOSE i \in 1..Len(list) :
                k = 1 + Cardinality({ j \in 1..Len(list) :
                        \/ RLt(list[i].similarity, list[j].similarity)
                        \/ (list[j].similarity = list[i].similarity /\ j > i) })]]

SortDescending(list) ==
    [k \in 1..Len(list) |-> list[CHOOSE i \in 1..Len(list) : Place(list, i) = k]]

\* list[a:b] of Python, 0-based and clipped to the list
Slice(list, a, b) == SubSeq(list, a + 1, Min2(b, Len(list)))

\* One entry of 'suggested_artworks' / 'alternatives'
Entry(s) == [id |-> s.artwork.id, similarity |-> s.similarity]
Entries(list) == [i \in 1..Len(list) |-> Entry(list[i])]

\* the acceptance and the confidence thresholds
AcceptThreshold == Rat(70, 100)
HighThreshold == Rat(85, 100)

\* A request arrives.
Receive ==
    /\ phase = "IDLE"
    /\ \E image \in ImageUploads, latitude \in LatitudeValues,
          longitude \in LongitudeValues, museum_id \in MuseumValues :
          request' = [image |-> image, latitude |-> latitude,
                      longitude |-> longitude, museum_id |-> museum_id]
    /\ phase' = "LOCATING"
    /\ trail' = << "LOCATING" >>
    /\ user' = NoUser
    /\ geo_checks' = <<>>
    /\ accessible_artworks' = <<>>
    /\ query_embedding' = None
    /\ similarities' = <<>>
    /\ response' = NoResponse
    /\ UNCHANGED << catalogue, legacy, bench, admin_response, rest,
                    last_save >>

Finish(resp) ==
    /\ phase' = "DONE"
    /\ response' = resp
    /\ trail' = Append(trail, resp.outcome)

\* Validate required fields, then parse the coordinates.
Locate ==
    /\ phase = "LOCATING"
    /\ IF request.image = None
       THEN /\ Finish(Resp(400, "INVALID_REQUEST", {"error"},
                           None, None, None, "", <<>>))
            /\ UNCHANGED user
       ELSE IF Falsy(request.latitude) \/ Falsy(request.longitude)
       THEN /\ Finish(Resp(400, "INVALID_REQUEST", {"error"},
                           None, None, None, "", <<>>))
            /\ UNCHANGED user
       ELSE IF float_raises(Val(request.latitude))
                 \/ float_raises(Val(request.longitude))
       THEN /\ Finish(Resp(500, "SCAN_FAILED", {"error", "message"},
                           None, None, None, "", <<>>))
            /\ UNCHANGED user
       ELSE /\ user' = [lat |-> Some(float(Val(request.latitude))),
                        lon |-> Some(float(Val(request.longitude)))]
            /\ phase' = "FILTERING"
            /\ trail' = Append(trail, "FILTERING")
            /\ UNCHANGED response
    /\ UNCHANGED << catalogue, request, geo_checks, accessible_artworks,
                    query_embedding, similarities, legacy, bench, admin_response, rest,
                    last_save >>

\* check_geofence for every row fetched (the loop of lines 230-242)
CheckAll(rows, user_lat, user_lon) ==
    [i \in 1..Len(rows) |->
        [artwork |-> rows[i],
         result |-> check_geofence(user_lat, user_lon,
                                   Val(rows[i].latitude), Val(rows[i].longitude),
                                   rows[i].geofence_radius_meters)]]

\* accessible_artworks without the `if is_accessible` test
Accessible_Unfiltered(checks) ==
    [i \in 1..Len(checks) |->
        [artwork |-> checks[i].artwork, distance |-> checks[i].result.distance]]

\* accessible_artworks: the rows found accessible, with their distance
Accessible(checks) ==
    LET inside == SelectSeq(checks, LAMBDA c : c.result.is_accessible)
    IN  [i \in 1..Len(inside) |->
            [artwork |-> inside[i].artwork, distance |-> inside[i].result.distance]]

\* STEP 1 with the picture decoded before the rows are looked at
Filter_DecodesFirst ==
    /\ phase = "FILTERING"
    /\ \E rows \in {artworks_query(catalogue, request.museum_id)} :
       \E checks \in {CheckAll(rows, Val(user.lat), Val(user.lon))} :
       \E found \in {Accessible(checks)} :
           /\ geo_checks' = checks
           /\ accessible_artworks' = found
           /\ IF generate_embedding_raises(Val(request.image))
              THEN Finish(Resp(500, "SCAN_FAILED", {"error", "message"},
                               None, None, None, "", <<>>))
              ELSE IF found = <<>>
              THEN Finish(Resp(403, "NO_TARGETS_IN_RANGE",
                               {"error", "message", "access_denied"},
                               None, None, None, "", <<>>))
              ELSE /\ phase' = "MATCHING"
                   /\ trail' = Append(trail, "MATCHING")
                   /\ UNCHANGED response
    /\ UNCHANGED << catalogue, request, user, query_embedding, similarities,
                    legacy, bench, admin_response, rest,
                    last_save >>

\* STEP 1: the rows with GPS and embedding, each through check_geofence.
Filter ==
    /\ phase = "FILTERING"
    /\ \E rows \in {artworks_query(catalogue, request.museum_id)} :
       \E checks \in {CheckAll(rows, Val(user.lat), Val(user.lon))} :
       \E found \in {Accessible(checks)} :
           /\ geo_checks' = checks
           /\ accessible_artworks' = found
           /\ IF found = <<>>
              THEN Finish(Resp(403, "NO_TARGETS_IN_RANGE",
                               {"error", "message", "access_denied"},
                               None, None, None, "", <<>>))
              ELSE /\ phase' = "MATCHING"
                   /\ trail' = Append(trail, "MATCHING")
                   /\ UNCHANGED response
    /\ UNCHANGED << catalogue, request, user, query_embedding, similarities,
                    legacy, bench, admin_response, rest,
                    last_save >>

\* The rows scored against the query fingerprint (the loop of lines 259-273)
ScoreAll(query, found) ==
    [i \in 1..Len(found) |->
        [artwork |-> found[i].artwork,
         similarity |-> Scores[query, np_array(found[i].artwork.embedding)],
         distance_meters |-> found[i].distance]]

\* `if similarity_score < 0.70` with the weaker test `<=`
BelowThreshold_Inclusive(similarity_score) == RLe(similarity_score, AcceptThreshold)

\* `if similarity_score < 0.70`
BelowThreshold(similarity_score) == RLt(similarity_score, AcceptThreshold)

\* the confidence tier with `>=` for `>`
Confidence_Inclusive(similarity_score) ==
    IF ~RLt(similarity_score, HighThreshold) THEN "high" ELSE "medium"

\* 'high' if similarity_score > 0.85 else 'medium'
Confidence(similarity_score) ==
    IF RGt(similarity_score, HighThreshold) THEN "high" ELSE "medium"

\* the suggestions without the [:3]
Suggestions_All(sorted) == Entries(sorted)

\* 'suggested_artworks': similarities[:3]
Suggestions(sorted) == Entries(Slice(sorted, 0, 3))

\* 'alternatives': similarities[1:4] if len(similarities) > 1 else []
Alternatives(sorted) ==
    IF Len(sorted) > 1 THEN Entries(Slice(sorted, 1, 4)) ELSE <<>>

\* What the handler returns for the sorted list
Decide(sorted) ==
    IF sorted = <<>>
    THEN Resp(404, "NO_MATCH", {"error", "message"}, None, None, None, "", <<>>)
    ELSE IF BelowThreshold(sorted[1].similarity)
    THEN Resp(404, "NO_CONFIDENT_MATCH",
              {"error", "message", "similarity_score", "suggested_artworks"},
              None, Some(sorted[1].similarity), None, "", Suggestions(sorted))
    ELSE Resp(200, "MATCHED",
              {"success", "artwork", "similarity_score", "distance_meters",
               "confidence", "scanning_method", "alternatives"},
              Some(sorted[1].artwork.id), Some(sorted[1].similarity),
              sorted[1].distance_meters,
              Confidence(sorted[1].similarity), Alternatives(sorted))

\* STEP 2 as scan_artwork ends it: an accepted match is logged as an
\* interaction of the first session
Match_Logged ==
    /\ phase = "MATCHING"
    /\ IF generate_embedding_raises(Val(request.image))
       THEN /\ Finish(Resp(500, "SCAN_FAILED", {"error", "message"},
                           None, None, None, "", <<>>))
            /\ UNCHANGED << query_embedding, similarities, interactions >>
       ELSE \E query \in {Fingerprints[Val(request.image)]} :
            \E sorted \in {SortDescending(ScoreAll(query, accessible_artworks))} :
                /\ query_embedding' = Some(query)
                /\ similarities' = sorted
                /\ Finish(Decide(sorted))
                /\ interactions' =
                       IF Decide(sorted).outcome = "MATCHED" /\ interactions = <<>>
                       THEN << [session |-> 1, artwork |-> sorted[1].artwork.id,
                                interaction_type |-> "scan",
                                similarity_score |-> sorted[1].similarity] >>
                       ELSE interactions
    /\ UNCHANGED << catalogue, request, user, geo_checks, accessible_artworks,
                    sessions, scan_response, bench, admin_response, rest,
                    last_save >>

\* STEP 2: fingerprint the picture, score the accessible rows, sort, accept.
Match ==
    /\ phase = "MATCHING"
    /\ IF generate_embedding_raises(Val(request.image))
       THEN /\ Finish(Resp(500, "SCAN_FAILED", {"error", "message"},
                           None, None, None, "", <<>>))
            /\ UNCHANGED << query_embedding, similarities >>
       ELSE \E query \in {Fingerprints[Val(request.image)]} :
            \E sorted \in {SortDescending(ScoreAll(query, accessible_artworks))} :
                /\ query_embedding' = Some(query)
                /\ similarities' = sorted
                /\ Finish(Decide(sorted))
    /\ UNCHANGED << catalogue, request, user, geo_checks, accessible_artworks,
                    legacy, bench, admin_response, rest,
                    last_save >>

\* The response is sent and the handler's locals are gone; the worker is
\* free for the next request.
Respond ==
    /\ phase = "DONE"
    /\ phase' = "IDLE"
    /\ request' = NoRequest
    /\ user' = NoUser
    /\ geo_checks' = <<>>
    /\ accessible_artworks' = <<>>
    /\ query_embedding' = None
    /\ similarities' = <<>>
    /\ response' = NoResponse
    /\ trail' = <<>>
    /\ UNCHANGED << catalogue, legacy, bench, admin_response, rest,
                    last_save >>

(***************************************************************************)
(* scan_artwork, the legacy image-only endpoint                            *)
(***************************************************************************)
\* The Response of scan_artwork: the status, what it stands for, and the
\* values of its body
ScanResp(status, outcome, best_score, artwork, session_id, recommendations) ==
    [status |-> status, outcome |-> outcome, best_score |-> best_score,
     artwork |-> artwork, session_id |-> session_id,
     recommendations |-> recommendations]
NoScanResponse == ScanResp(0, "NONE", None, None, None, <<>>)

\* Artwork.objects.filter(museum_id=museum_id, is_on_display=True,
\*                        embedding__isnull=False)
scan_artworks(table, museum_id) ==
    SelectSeq(table, LAMBDA a : /\ a.museum = museum_id
                                /\ a.is_on_display
                                /\ a.embedding.kind /= "none")

\* matches: every row with its cosine similarity to the query
ScanMatches(query, artworks) ==
    [i \in 1..Len(artworks) |->
        [artwork |-> artworks[i],
         similarity |-> ClipScores[query, np_array(artworks[i].embedding)]]]

\* the legacy threshold
ScanThreshold == Rat(75, 100)

\* `if best_similarity < threshold`
ScanBelowThreshold(best_similarity) == RLt(best_similarity, ScanThreshold)

\* The whole handler: validation, the visitor session, the query vector, the
\* scores, the threshold, the interaction and the session counters.
ScanArtwork ==
    /\ phase = "IDLE"
    /\ \E image \in ImageUploads, museum_id \in ScanMuseumValues,
          session_id \in SessionIds, model_loaded \in BOOLEAN :
        IF ~ScanRequestSerializer_is_valid(image, museum_id)
        THEN /\ scan_response' = ScanResp(400, "INVALID_REQUEST", None, None, None, <<>>)
             /\ UNCHANGED << sessions, interactions >>
        ELSE
        \E created \in {session_id = None \/ Val(session_id) > Len(sessions)} :
        \E sid \in {IF created THEN Len(sessions) + 1 ELSE Val(session_id)} :
        \E visitor_sessions \in
               {IF created
                THEN Append(sessions, [museum |-> Val(museum_id),
                                       analytics_consent |-> TRUE,
                                       opted_out |-> FALSE,
                                       artworks_scanned |-> 0,
                                       total_interactions |-> 0])
                ELSE sessions} :
        \E query \in {EmbeddingEngine_generate_embedding(Val(image), model_loaded)} :
        \E artworks \in {scan_artworks(catalogue, Val(museum_id))} :
            /\ created => Len(sessions) < MaxSessions
            /\ visitor_sessions[sid].artworks_scanned < MaxScans
            /\ IF \E i \in 1..Len(artworks) :
                      EmbeddingEngine_compute_similarity_raises(
                          query, np_array(artworks[i].embedding))
               THEN /\ sessions' = visitor_sessions
                    /\ scan_response' = ScanResp(500, "SCAN_FAILED", None, None,
                                                 None, <<>>)
                    /\ UNCHANGED interactions
               ELSE IF artworks = <<>>
               THEN /\ sessions' = visitor_sessions
                    /\ scan_response' = ScanResp(404, "NO_MATCH", None, None,
                                                 None, <<>>)
                    /\ UNCHANGED interactions
               ELSE
               \E matches \in {SortDescending(ScanMatches(query, artworks))} :
                   IF ScanBelowThreshold(matches[1].similarity)
                   THEN /\ sessions' = visitor_sessions
                        /\ scan_response' =
                               ScanResp(404, "NO_CONFIDENT_MATCH",
                                        Some(matches[1].similarity), None, None, <<>>)
                        /\ UNCHANGED interactions
                   ELSE /\ interactions' =
                               Append(interactions,
                                      [session |-> sid,
                                       artwork |-> matches[1].artwork.id,
                                       interaction_type |-> "scan",
                                       similarity_score |-> matches[1].similarity])
                        /\ sessions' =
                               [visitor_sessions EXCEPT
                                   ![sid].artworks_scanned = @ + 1,
                                   ![sid].total_interactions = @ + 1]
                        /\ scan_response' =
                               ScanResp(200, "MATCHED",
                                        Some(matches[1].similarity),
                                        Some(matches[1].artwork.id), Some(sid),
                                        [i \in 1..Len(Slice(matches, 1, 6)) |->
                                            Slice(matches, 1, 6)[i].artwork.id])
    /\ UNCHANGED << catalogue, phase, request, user, geo_checks,
                    accessible_artworks, query_embedding, similarities,
                    response, trail, bench, admin_response, rest,
                    last_save >>

\* A call of a utility function: its name, its arguments, and what it
\* returned once it has returned
Probe(op, args, out) == [op |-> op, args |-> args, out |-> out]
NoProbe == Probe("", <<>>, None)
Quiet ==
    /\ probe = NoProbe /\ handlers = <<>> /\ last_save = None
    /\ queue = {} /\ system_log = <<>>

\* Everything but the catalogue, as it is before the first request
Idle ==
    /\ phase = "IDLE"
    /\ request = NoRequest
    /\ user = NoUser
    /\ geo_checks = <<>>
    /\ accessible_artworks = <<>>
    /\ query_embedding = None
    /\ similarities = <<>>
    /\ response = NoResponse
    /\ trail = <<>>
    /\ sessions = <<>>
    /\ interactions = <<>>
    /\ scan_response = NoScanResponse
    /\ admin_response = 0

(***************************************************************************)
(* The similarity scorer on its own: two pictures, the fingerprints        *)
(* extracted from them in each stored format, and their comparison         *)
(***************************************************************************)
BenchPictures == { ImageFile(TRUE, 0), ImageFile(TRUE, 6), ImageFile(TRUE, 10) }

\* The formats compute_similarity tells apart: the dict of generate_embedding,
\* a dict without histogram, a dict without hash, the legacy list (the
\* histogram alone), a list of unnormalized bin counts, a dict with neither,
\* a vector of another length, and np.array of a dict
Formats == { "full", "hash_only", "histogram_only", "legacy", "counts",
             "empty", "vector", "object0d" }

BenchFingerprints == [file \in BenchPictures |-> generate_embedding(file)]

InFormat(fp, format) ==
    CASE format = "full" -> fp
      [] format = "hash_only" -> Emb("dict", fp.hash, <<>>, 1)
      [] format = "histogram_only" -> Emb("dict", <<>>, fp.num, fp.den)
      [] format = "legacy" -> Emb("list", <<>>, fp.num, fp.den)
      [] format = "counts" -> Emb("list", <<>>, fp.num, 1)
      [] format = "empty" -> Emb("dict", <<>>, <<>>, 1)
      [] format = "vector" -> ForeignEmbedding
      [] format = "object0d" -> np_array(fp)

Bench(step, picture1, picture2, format1, format2, fp1, fp2, out) ==
    [step |-> step, picture1 |-> picture1, picture2 |-> picture2,
     format1 |-> format1, format2 |-> format2, fp1 |-> fp1, fp2 |-> fp2,
     out |-> out]
NoBench == Bench("OFF", None, None, "", "", None, None, None)

\* generate_embedding of the two pictures, each kept in its format
ExtractFingerprints ==
    /\ bench.step = "INPUT"
    /\ bench' = [bench EXCEPT
                    !.step = "EXTRACTED",
                    !.fp1 = Some(InFormat(BenchFingerprints[Val(bench.picture1)],
                                          bench.format1)),
                    !.fp2 = Some(InFormat(BenchFingerprints[Val(bench.picture2)],
                                          bench.format2))]
    /\ UNCHANGED << catalogue, phase, request, user, geo_checks,
                    accessible_artworks, query_embedding, similarities,
                    response, trail, legacy, admin_response, rest,
                    last_save >>

\* compute_similarity both ways round and of the first fingerprint with itself
CompareFingerprints ==
    /\ bench.step = "EXTRACTED"
    /\ \E a \in {Val(bench.fp1)}, b \in {Val(bench.fp2)} :
          bench' = [bench EXCEPT
                       !.step = "SCORED",
                       !.out = Some([ab |-> compute_similarity(a, b),
                                     ba |-> compute_similarity(b, a),
                                     aa |-> compute_similarity(a, a)])]
    /\ UNCHANGED << catalogue, phase, request, user, geo_checks,
                    accessible_artworks, query_embedding, similarities,
                    response, trail, legacy, admin_response, rest,
                    last_save >>

ScorerInit ==
    /\ catalogue = <<>>
    /\ Idle
    /\ Quiet
    /\ bench \in { Bench("INPUT", Some(p1), Some(p2), f1, f2, None, None, None) :
                       p1 \in BenchPictures, p2 \in BenchPictures,
                       f1 \in Formats, f2 \in Formats }
ScorerNext == ExtractFingerprints \/ CompareFingerprints
ScorerSpec == ScorerInit /\ [][ScorerNext]_vars

(***************************************************************************)
(* The catalogue is written: upload_artwork_submit and edit_artwork_view   *)
(* (core/views.py), the post_save receiver auto_generate_embedding         *)
(* (core/signals.py) and the task generate_artwork_embedding               *)
(* (embeddings/tasks.py)                                                   *)
(***************************************************************************)
\* request.POST.get('latitude') and request.FILES.get('image_0') / ['image']
UploadLatitudes == { None, Some("1"), Some("2") }
UploadImages == { None, Some(ImageFile(TRUE, 0)), Some(ImageFile(TRUE, 10)) }

\* An Artwork row together with its image column
WithImage(a, image) == [image |-> image] @@ a

\* `not instance.embedding`: the truth value of an array of more than one
\* element is ambiguous (ValueError); None and empty values are falsy
truth_raises(value) == value.kind = "ndarray" /\ Len(value.num) > 1

\* VectorField.from_db_value: a stored vector is loaded as a numpy array;
\* get_prep_value stores an array or a list as the same vector
from_db_value(value) ==
    IF value.kind = "list" THEN [value EXCEPT !.kind = "ndarray"] ELSE value
get_prep_value(value) ==
    IF value.kind = "ndarray" THEN [value EXCEPT !.kind = "list"] ELSE value

\* Model.save() at the given depth of the call stack, with post_save and
\* its receiver auto_generate_embedding: the instance afterwards, the number
\* of saves made, and whether save() raised.  The condition of the receiver
\* is evaluated outside its try; inside, embedding.tolist() raises on the
\* dict of generate_embedding and the except branch logs it, otherwise the
\* receiver saves the instance again.
RECURSIVE save(_, _, _)
auto_generate_embedding(instance, created, depth) ==
    IF ~created /\ truth_raises(instance.embedding)
    THEN [instance |-> instance, saves |-> depth, raised |-> TRUE]
    ELSE IF ~(created \/ instance.embedding.kind = "none")
    THEN [instance |-> instance, saves |-> depth, raised |-> FALSE]
    ELSE IF instance.image = None
              \/ generate_embedding_raises(Val(instance.image))
              \/ tolist_raises(generate_embedding(Val(instance.image)))
    THEN [instance |-> instance, saves |-> depth, raised |-> FALSE]
    ELSE [save([instance EXCEPT
                    !.embedding = tolist(generate_embedding(Val(instance.image)))],
               FALSE, depth + 1)
             EXCEPT !.raised = FALSE]
save(instance, created, depth) ==
    IF depth > MaxNesting
    THEN [instance |-> instance, saves |-> depth, raised |-> FALSE]
    ELSE auto_generate_embedding(instance, created, depth)

\* upload_artwork_submit: validation, Artwork.objects.create with the first
\* image (newest first in Meta.ordering), and the receiver
UploadArtwork ==
    /\ phase = "IDLE"
    /\ \E latitude \in UploadLatitudes, longitude \in {Some("1")},
          image \in UploadImages :
          IF Falsy(latitude) \/ Falsy(longitude) \/ image = None
          THEN /\ admin_response' = 400
               /\ UNCHANGED << catalogue, last_save >>
          ELSE \E done \in {save(WithImage(Artwork(Len(catalogue) + 1, "M1", TRUE,
                                                   Some(float(Val(latitude))),
                                                   Some(float(Val(longitude))),
                                                   50, NoEmbedding),
                                           image),
                                 TRUE, 1)} :
               /\ Len(catalogue) < MaxUploads
               /\ catalogue' = << done.instance >> \o catalogue
               /\ last_save' = Some([saves |-> done.saves, raised |-> done.raised])
               /\ admin_response' = IF done.raised THEN 500 ELSE 200
    /\ UNCHANGED << phase, request, user, geo_checks, accessible_artworks,
                    query_embedding, similarities, response, trail, legacy,
                    bench, rest >>

\* edit_artwork_view (POST): the row is loaded, the fields of the form are
\* set (the coordinates are the row's own), the image when one is sent,
\* then artwork.save() writes the row and runs the receiver; an exception
\* is answered 500
EditArtwork ==
    /\ phase = "IDLE"
    /\ \E i \in 1..Len(catalogue), is_on_display \in BOOLEAN,
          image \in UploadImages :
       \E done \in {save([catalogue[i] EXCEPT
                              !.embedding = from_db_value(@),
                              !.is_on_display = is_on_display,
                              !.image = IF image = None THEN @ ELSE image],
                          FALSE, 1)} :
          /\ catalogue' = [catalogue EXCEPT
                              ![i] = [done.instance EXCEPT
                                         !.embedding = get_prep_value(@)]]
          /\ last_save' = Some([saves |-> done.saves, raised |-> done.raised])
          /\ admin_response' = IF done.raised THEN 500 ELSE 200
    /\ UNCHANGED << phase, request, user, geo_checks, accessible_artworks,
                    query_embedding, similarities, response, trail, legacy,
                    bench, rest >>

\* generate_artwork_embedding: the CLIP vector of the row's image, set as a
\* list and saved (the receiver runs on the instance in memory); nothing is
\* stored when the engine returns None (None.tolist())
GenerateArtworkEmbedding ==
    /\ phase = "IDLE"
    /\ \E i \in 1..Len(catalogue), model_loaded \in BOOLEAN :
       \E embedding \in {EmbeddingEngine_generate_embedding(
                              Val(catalogue[i].image), model_loaded)} :
          IF tolist_raises(embedding)
          THEN UNCHANGED << catalogue, last_save >>
          ELSE \E done \in {save([catalogue[i] EXCEPT
                                     !.embedding = tolist(embedding)],
                                 FALSE, 1)} :
               /\ catalogue' = [catalogue EXCEPT ![i] = done.instance]
               /\ last_save' = Some([saves |-> done.saves,
                                     raised |-> done.raised])
    /\ UNCHANGED << phase, request, user, geo_checks, accessible_artworks,
                    query_embedding, similarities, response, trail, legacy,
                    bench, admin_response, rest >>

(***************************************************************************)
(* generate_artwork_embedding as a Celery task (embeddings/tasks.py): the  *)
(* messages at the broker, the attempts of a worker and the SystemLog rows *)
(***************************************************************************)
\* @shared_task(bind=True, max_retries=3)
max_retries == 3

\* A task message: the artwork, request.retries and the countdown it was
\* published with
Message(artwork_id, retries, countdown) ==
    [artwork_id |-> artwork_id, retries |-> retries, countdown |-> countdown]

\* The two artworks the tasks are about, uploaded and without embedding
TaskCatalogue ==
    << [embedding_generated_at |-> None]
         @@ WithImage(Artwork(2, "M1", TRUE, Some(1), Some(1), 50, NoEmbedding),
                      Some(ImageFile(TRUE, 10))),
       [embedding_generated_at |-> None]
         @@ WithImage(Artwork(1, "M1", TRUE, Some(1), Some(1), 50, NoEmbedding),
                      Some(ImageFile(TRUE, 0))) >>

\* batch_generate_embeddings: generate_artwork_embedding.delay for each id
BatchGenerateEmbeddings ==
    /\ queue = {} /\ system_log = <<>>
    /\ \E artwork_ids \in SUBSET { catalogue[i].id : i \in 1..Len(catalogue) } :
          /\ artwork_ids /= {}
          /\ queue' = { Message(id, 0, 0) : id \in artwork_ids }
    /\ UNCHANGED << catalogue, phase, request, user, geo_checks,
                    accessible_artworks, query_embedding, similarities,
                    response, trail, legacy, bench, admin_response, probe,
                    handlers, last_save, system_log >>

\* A worker runs one message.  Success sets embedding and
\* embedding_generated_at, saves both and logs it.  A failure calls
\* self.retry inside a try: retry publishes the message again with
\* countdown 60 * (retries + 1) and raises Retry, or raises the error itself
\* once request.retries has reached max_retries; `except Exception` catches
\* either and writes the 'Failed to generate embedding after retries' row.
RunTask ==
    /\ \E m \in queue, model_loaded \in BOOLEAN :
       \E i \in { j \in 1..Len(catalogue) : catalogue[j].id = m.artwork_id } :
       \E embedding \in {EmbeddingEngine_generate_embedding(
                              Val(catalogue[i].image), model_loaded)} :
          IF ~tolist_raises(embedding)
          THEN \E done \in {save([catalogue[i] EXCEPT
                                     !.embedding = tolist(embedding),
                                     !.embedding_generated_at = Some("now")],
                                 FALSE, 1)} :
               /\ catalogue' = [catalogue EXCEPT ![i] = done.instance]
               /\ last_save' = Some([saves |-> done.saves,
                                     raised |-> done.raised])
               /\ system_log' =
                      Append(system_log,
                             [log_type |-> "embedding_generation",
                              message |-> "Embedding generated successfully",
                              artwork_id |-> m.artwork_id,
                              retries |-> m.retries])
               /\ queue' = queue \ {m}
          ELSE /\ queue' =
                      IF m.retries + 1 > max_retries
                      THEN queue \ {m}
                      ELSE (queue \ {m})
                             \cup { Message(m.artwork_id, m.retries + 1,
                                            60 * (m.retries + 1)) }
               /\ system_log' =
                      Append(system_log,
                             [log_type |-> "error",
                              message |-> "Failed to generate embedding after retries",
                              artwork_id |-> m.artwork_id,
                              retries |-> m.retries])
               /\ UNCHANGED << catalogue, last_save >>
    /\ UNCHANGED << phase, request, user, geo_checks, accessible_artworks,
                    query_embedding, similarities, response, trail, legacy,
                    bench, admin_response, probe, handlers >>

TaskInit ==
    /\ catalogue = TaskCatalogue
    /\ Idle
    /\ bench = NoBench
    /\ Quiet
TaskNext == BatchGenerateEmbeddings \/ RunTask
TaskSpec == TaskInit /\ [][TaskNext]_vars

(***************************************************************************)
(* Requests on one visitor session handled by several workers at once:     *)
(* scan_artwork (a matched scan), log_interaction and opt_out_analytics.   *)
(* Each reads the VisitorSession row, and later saves the instance it read *)
(***************************************************************************)
\* requests in flight on the session
MaxHandlers == 2
Views == { "scan_artwork", "log_interaction", "opt_out_analytics" }

\* A row of VisitorSession as the model default creates it
VisitorSession(museum) ==
    [museum |-> museum, analytics_consent |-> TRUE, opted_out |-> FALSE,
     artworks_scanned |-> 0, total_interactions |-> 0]

Handler(view, pc, session) == [view |-> view, pc |-> pc, session |-> session]

\* what these views leave alone
elsewhere == << catalogue, phase, request, user, geo_checks,
                accessible_artworks, query_embedding, similarities,
                response, trail, scan_response, bench, admin_response, probe,
                last_save, queue, system_log >>

\* VisitorSession.objects.get(id=session_id); in log_interaction the
\* serializer's session field does it during is_valid()
LoadSession(h) ==
    /\ handlers[h].pc = "start"
    /\ handlers' = [handlers EXCEPT ![h].pc = "loaded",
                                    ![h].session = Some(sessions[1])]
    /\ UNCHANGED << sessions, interactions, elsewhere >>

\* ArtworkInteraction.objects.create(...) / serializer.save()
RecordInteraction(h) ==
    /\ handlers[h].pc = "loaded"
    /\ handlers[h].view \in { "scan_artwork", "log_interaction" }
    /\ interactions' =
           Append(interactions,
                  [session |-> 1, artwork |-> 1,
                   interaction_type |-> IF handlers[h].view = "scan_artwork"
                                        THEN "scan" ELSE "view_details",
                   similarity_score |-> IF handlers[h].view = "scan_artwork"
                                        THEN One ELSE None])
    /\ handlers' = [handlers EXCEPT ![h].pc = "recorded"]
    /\ UNCHANGED << sessions, elsewhere >>

\* the instance as the view changes it before session.save()
Changed(view, session) ==
    CASE view = "scan_artwork" ->
             [session EXCEPT !.artworks_scanned = @ + 1,
                             !.total_interactions = @ + 1]
      [] view = "log_interaction" ->
             [session EXCEPT !.total_interactions = @ + 1]
      [] view = "opt_out_analytics" ->
             [session EXCEPT !.opted_out = TRUE, !.analytics_consent = FALSE]

\* session.save(): every field of the instance is written to the row
SaveSession(h) ==
    /\ handlers[h].pc = IF handlers[h].view = "opt_out_analytics"
                        THEN "loaded" ELSE "recorded"
    /\ sessions' = [sessions EXCEPT
                       ![1] = Changed(handlers[h].view, Val(handlers[h].session))]
    /\ handlers' = [handlers EXCEPT ![h].pc = "done"]
    /\ UNCHANGED << interactions, elsewhere >>

Load == \E h \in 1..Len(handlers) : LoadSession(h)
Record == \E h \in 1..Len(handlers) : RecordInteraction(h)
Save == \E h \in 1..Len(handlers) : SaveSession(h)

\* QuerySet.count(): the number of rows a filtered query keeps
Count(rows) == Len(rows)

\* calculate_museum_analytics over the two tables (every row within the
\* period): the metrics that count rows
calculate_museum_analytics(museum_id, session_rows, interaction_rows) ==
    [total_sessions |->
         Count(SelectSeq(session_rows, LAMBDA v : v.museum = museum_id /\ ~v.opted_out)),
     total_interactions |->
         Count(SelectSeq(interaction_rows,
               LAMBDA x : session_rows[x.session].museum = museum_id)),
     top_artworks |->
         [a \in { interaction_rows[i].artwork : i \in
                    { j \in 1..Len(interaction_rows) :
                        /\ session_rows[interaction_rows[j].session].museum
                               = museum_id
                        /\ interaction_rows[j].interaction_type = "scan" } } |->
             Count(SelectSeq(interaction_rows,
                   LAMBDA x : /\ session_rows[x.session].museum = museum_id
                              /\ x.interaction_type = "scan"
                              /\ x.artwork = a))],
     daily_trends |->
         Count(SelectSeq(session_rows, LAMBDA v : v.museum = museum_id /\ ~v.opted_out))]

SessionInit ==
    /\ catalogue = <<>>
    /\ phase = "IDLE" /\ request = NoRequest /\ user = NoUser
    /\ geo_checks = <<>> /\ accessible_artworks = <<>>
    /\ query_embedding = None /\ similarities = <<>>
    /\ response = NoResponse /\ trail = <<>>
    /\ scan_response = NoScanResponse /\ admin_response = 0
    /\ bench = NoBench /\ probe = NoProbe /\ last_save = None
    /\ queue = {} /\ system_log = <<>>
    /\ sessions = << VisitorSession("M1") >>
    /\ interactions = <<>>
    /\ handlers \in UNION { [1..n -> { Handler(view, "start", None) :
                                          view \in Views }] :
                               n \in 1..MaxHandlers }
SessionNext == Load \/ Record \/ Save
SessionSpec == SessionInit /\ [][SessionNext]_vars

(***************************************************************************)
(* The utility functions called on their own: get_distance_message,        *)
(* check_geofence and generate_embedding                                   *)
(***************************************************************************)
\* f"{km:.1f}": the tenths of a kilometre shown (the inputs avoid the ties)
KmTenths(distance_meters) == (distance_meters + 50) \div 100

\* get_distance_message with the tiers below 100 m in the other order
get_distance_message_Reordered(distance_meters, radius_meters) ==
    IF distance_meters <= radius_meters
    THEN [tier |-> "within range", shown |-> None]
    ELSE IF distance_meters < 100
    THEN [tier |-> "walk closer", shown |-> Some(distance_meters - radius_meters)]
    ELSE IF distance_meters < 50
    THEN [tier |-> "very close", shown |-> None]
    ELSE IF distance_meters < 500
    THEN [tier |-> "head to artwork", shown |-> Some(distance_meters)]
    ELSE IF distance_meters < 1000
    THEN [tier |-> "navigate to museum", shown |-> Some(distance_meters)]
    ELSE [tier |-> "visit the museum", shown |-> Some(KmTenths(distance_meters))]

\* get_distance_message: the message, as its tier and the number it shows
get_distance_message(distance_meters, radius_meters) ==
    IF distance_meters <= radius_meters
    THEN [tier |-> "within range", shown |-> None]
    ELSE IF distance_meters < 50
    THEN [tier |-> "very close", shown |-> None]
    ELSE IF distance_meters < 100
    THEN [tier |-> "walk closer", shown |-> Some(distance_meters - radius_meters)]
    ELSE IF distance_meters < 500
    THEN [tier |-> "head to artwork", shown |-> Some(distance_meters)]
    ELSE IF distance_meters < 1000
    THEN [tier |-> "navigate to museum", shown |-> Some(distance_meters)]
    ELSE [tier |-> "visit the museum", shown |-> Some(KmTenths(distance_meters))]

\* distances and radii in metres, on and around every boundary
MessageDistances == { 0, 10, 49, 50, 51, 99, 100, 101, 499, 500, 501,
                      999, 1000, 1001, 1500 }
MessageRadii == { 0, 10, 50, 75, 100, 600, 1000, 2000 }

GetDistanceMessage ==
    /\ probe.op = "get_distance_message" /\ probe.out = None
    /\ probe' = [probe EXCEPT
                    !.out = Some(get_distance_message(probe.args[1],
                                                      probe.args[2]))]
    /\ UNCHANGED << catalogue, phase, request, user, geo_checks,
                    accessible_artworks, query_embedding, similarities,
                    response, trail, legacy, bench, admin_response, handlers,
                    last_save, queue, system_log >>

\* image data, readable or not, of several pictures
ProbedImages == { ImageFile(ok, bright) : ok \in BOOLEAN, bright \in {0, 6, 10, NPix} }

\* generate_embedding: the exception of either step propagates, otherwise
\* the dict of both steps is returned
GenerateEmbedding ==
    /\ probe.op = "generate_embedding" /\ probe.out = None
    /\ probe' = [probe EXCEPT
                    !.out = IF generate_embedding_raises(probe.args[1])
                            THEN Some([raised |-> TRUE, value |-> None])
                            ELSE Some([raised |-> FALSE,
                                       value |-> Some(generate_embedding(
                                                          probe.args[1]))])]
    /\ UNCHANGED << catalogue, phase, request, user, geo_checks,
                    accessible_artworks, query_embedding, similarities,
                    response, trail, legacy, bench, admin_response, handlers,
                    last_save, queue, system_log >>

\* coordinates (0 among them) and radii
ProbedCoordinates == { -1, 0, 1, 2 }
ProbedRadii == { 1, 50, 100 }

\* check_geofence from A to B, from B to A and from A to A
CheckGeofence ==
    /\ probe.op = "check_geofence" /\ probe.out = None
    /\ \E a_lat \in {probe.args[1]}, a_lon \in {probe.args[2]},
          b_lat \in {probe.args[3]}, b_lon \in {probe.args[4]},
          radius_meters \in {probe.args[5]} :
          probe' = [probe EXCEPT
                       !.out = Some([ab |-> check_geofence(a_lat, a_lon, b_lat,
                                                           b_lon, radius_meters),
                                     ba |-> check_geofence(b_lat, b_lon, a_lat,
                                                           a_lon, radius_meters),
                                     aa |-> check_geofence(a_lat, a_lon, a_lat,
                                                           a_lon, radius_meters)])]
    /\ UNCHANGED << catalogue, phase, request, user, geo_checks,
                    accessible_artworks, query_embedding, similarities,
                    response, trail, legacy, bench, admin_response, handlers,
                    last_save, queue, system_log >>

UtilityInit ==
    /\ catalogue = <<>>
    /\ Idle
    /\ bench = NoBench
    /\ handlers = <<>>
    /\ last_save = None
    /\ queue = {} /\ system_log = <<>>
    /\ probe \in { Probe("get_distance_message", << d, r >>, None) :
                       d \in MessageDistances, r \in MessageRadii }
                 \cup { Probe("generate_embedding", << file >>, None) :
                           file \in ProbedImages }
                 \cup { Probe("check_geofence",
                               << a_lat, a_lon, b_lat, b_lon, r >>, None) :
                           a_lat \in ProbedCoordinates, a_lon \in ProbedCoordinates,
                           b_lat \in ProbedCoordinates, b_lon \in ProbedCoordinates,
                           r \in ProbedRadii }
UtilityNext == GetDistanceMessage \/ GenerateEmbedding \/ CheckGeofence
UtilitySpec == UtilityInit /\ [][UtilityNext]_vars

Init ==
    /\ catalogue \in Catalogues
    /\ Idle
    /\ bench = NoBench
    /\ Quiet

Next == Receive \/ Locate \/ Filter \/ Match \/ Respond

Spec == Init /\ [][Next]_vars

\* The handler is synchronous code: once started, each step is taken.
FairSpec == Spec /\ WF_vars(Locate) /\ WF_vars(Filter) /\ WF_vars(Match)

\* The resolver over a catalogue that the staff views and the task write,
\* empty at first
CatalogueInit ==
    /\ catalogue = <<>>
    /\ Idle
    /\ bench = NoBench
    /\ Quiet
CatalogueNext == UploadArtwork \/ EditArtwork \/ GenerateArtworkEmbedding \/ Next
CatalogueSpec == CatalogueInit /\ [][CatalogueNext]_vars

\* Both scanning endpoints of api/urls.py over one catalogue
EndpointsInit ==
    /\ catalogue \in EndpointCatalogues
    /\ Idle
    /\ bench = NoBench
    /\ Quiet
EndpointsNext == Next \/ ScanArtwork
EndpointsSpec == EndpointsInit /\ [][EndpointsNext]_vars

(***************************************************************************)
(* Properties                                                              *)
(***************************************************************************)
\* The state of the resolver's state machine: the phase, or the outcome
RState == IF phase = "DONE" THEN response.outcome ELSE phase

\* the ids a response names: best match, alternatives, suggestions
ReportedIds ==
    (IF response.artwork = None THEN {} ELSE {Val(response.artwork)})
    \cup {response.others[i].id : i \in 1..Len(response.others)}

\* the row of the catalogue is a candidate inside its geofence for the user
InsideGeofence(a) ==
    /\ a.is_on_display
    /\ a.latitude /= None
    /\ a.longitude /= None
    /\ a.embedding.kind /= "none"
    /\ geodesic(Val(user.lat), Val(user.lon), Val(a.latitude), Val(a.longitude))
           <= a.geofence_radius_meters

\* C1: every artwork a scan returns (best match, alternative or suggestion)
\* is a row of the catalogue that is on display, has a location and a stored
\* fingerprint, and lies within its own radius of the user's coordinates.
C1_OnlyAccessibleReturned ==
    phase = "DONE" =>
        \A id \in ReportedIds :
            \E i \in 1..Len(catalogue) :
                catalogue[i].id = id /\ InsideGeofence(catalogue[i])

\* C1 witness: a match was returned while another row of the catalogue lay
\* outside its geofence
C1_Witness ==
    /\ phase = "DONE"
    /\ response.outcome = "MATCHED"
    /\ \E i \in 1..Len(geo_checks) : ~geo_checks[i].result.is_accessible

Edges ==
    { << "IDLE", "LOCATING" >>,
      << "LOCATING", "FILTERING" >>, << "LOCATING", "INVALID_REQUEST" >>,
      << "LOCATING", "SCAN_FAILED" >>,
      << "FILTERING", "NO_TARGETS_IN_RANGE" >>, << "FILTERING", "MATCHING" >>,
      << "MATCHING", "NO_CONFIDENT_MATCH" >>, << "MATCHING", "MATCHED" >>,
      << "MATCHING", "SCAN_FAILED" >> }
    \cup { << t, "IDLE" >> : t \in Terminal }

C2_Step ==
    /\ RState' /= RState => << RState, RState' >> \in Edges
    /\ RState' = "MATCHING" /\ RState /= "MATCHING" =>
           \E i \in 1..Len(geo_checks') : geo_checks'[i].result.is_accessible

C3_InclusiveBoundary ==
    \A i \in 1..Len(geo_checks) :
        LET c == geo_checks[i] IN
        c.result.distance /= None =>
            /\ Val(c.result.distance) =
                   geodesic(Val(user.lat), Val(user.lon),
                            Val(c.artwork.latitude), Val(c.artwork.longitude))
            /\ c.result.is_accessible
                   = (Val(c.result.distance) <= c.artwork.geofence_radius_meters)

\* C3 witness: a user exactly on the boundary was found accessible
C3_Witness ==
    \E i \in 1..Len(geo_checks) :
        /\ geo_checks[i].result.is_accessible
        /\ geo_checks[i].result.distance
               = Some(geo_checks[i].artwork.geofence_radius_meters)

\* C4 (as claimed): every evaluation on valid coordinates, latitude 0 and
\* longitude 0 included, yields a real distance.  All coordinates that reach
\* check_geofence here are valid: parsed numbers and non-null columns.
C4_ValidCoordinatesEvaluated ==
    \A i \in 1..Len(geo_checks) : geo_checks[i].result.distance /= None

\* the catalogue position of the row a scored entry is about
Position(s) == CHOOSE i \in 1..Len(catalogue) : catalogue[i].id = s.artwork.id

\* C6: the scored candidates are the accessible ones, ordered descending by
\* score, and of two candidates with equal score the one earlier in the
\* catalogue comes first.
C6_StableDescending ==
    phase = "DONE" /\ query_embedding /= None =>
        /\ Len(similarities) = Len(accessible_artworks)
        /\ { similarities[i].artwork.id : i \in 1..Len(similarities) }
               = { accessible_artworks[i].artwork.id :
                       i \in 1..Len(accessible_artworks) }
        /\ \A i, j \in 1..Len(similarities) :
               i < j =>
                   /\ ~RLt(similarities[i].similarity, similarities[j].similarity)
                   /\ similarities[i].similarity = similarities[j].similarity
                          => Position(similarities[i]) < Position(similarities[j])

\* C6 witness: catalogue order [A, B, C] with scores [0.9, 0.95, 0.95] came
\* out as [B, C, A]
C6_Witness ==
    /\ Len(similarities) = 3
    /\ [i \in 1..3 |-> similarities[i].artwork.id] = << 2, 3, 1 >>
    /\ [i \in 1..3 |-> similarities[i].similarity]
           = << Rat(95, 100), Rat(95, 100), Rat(90, 100) >>

\* C7 (as claimed): a NO_TARGETS_IN_RANGE outcome reached with a located
\* candidate out of range carries the nearest candidate's distance.
C7_NearestDistanceCarried ==
    /\ phase = "DONE"
    /\ response.outcome = "NO_TARGETS_IN_RANGE"
    /\ \E i \in 1..Len(geo_checks) : geo_checks[i].result.distance /= None
    =>
        \/ response.distance_meters /= None
        \/ response.keys \cap {"distance_meters", "nearest_artwork",
                               "nearest_distance"} /= {}

\* the first n entries of the sorted list, as response entries
TopEntries(n) ==
    [i \in 1..Min2(n, Len(similarities)) |->
        [id |-> similarities[i].artwork.id,
         similarity |-> similarities[i].similarity]]

\* C8: a NO_CONFIDENT_MATCH outcome carries the first three entries of the
\* sorted list (all of them when there are fewer), id and score, descending,
\* the first one being the top-scoring candidate whose score it reports.
C8_TopThreeSuggestions ==
    phase = "DONE" /\ response.outcome = "NO_CONFIDENT_MATCH" =>
        /\ response.others = TopEntries(3)
        /\ Len(response.others) <= 3
        /\ response.others[1].similarity = Val(response.similarity_score)
        /\ \A i \in 1..Len(similarities) :
               ~RLt(response.others[1].similarity, similarities[i].similarity)
        /\ \A i, j \in 1..Len(response.others) :
               i < j => ~RLt(response.others[i].similarity,
                             response.others[j].similarity)

\* C8 witness: four or more candidates, three suggestions of differing scores
C8_Witness ==
    /\ phase = "DONE"
    /\ response.outcome = "NO_CONFIDENT_MATCH"
    /\ Len(similarities) >= 4
    /\ Len(response.others) = 3
    /\ response.others[1].similarity /= response.others[3].similarity

\* C9: a MATCHED outcome reports the first entry of the sorted list with its
\* score and distance, 'high' exactly when the score exceeds 0.85, and as
\* alternatives the entries 2-4 of the sorted list: at most three, in order,
\* without the best match, none when one candidate is accessible.
C9_MatchedPayload ==
    phase = "DONE" /\ response.outcome = "MATCHED" =>
        /\ response.artwork = Some(similarities[1].artwork.id)
        /\ response.similarity_score = Some(similarities[1].similarity)
        /\ response.distance_meters
               = Some(geodesic(Val(user.lat), Val(user.lon),
                               Val(similarities[1].artwork.latitude),
                               Val(similarities[1].artwork.longitude)))
        /\ (response.confidence = "high")
               = (similarities[1].similarity.n * 100
                      > 85 * similarities[1].similarity.d)
        /\ response.confidence \in {"high", "medium"}
        /\ Len(response.others) = Min2(3, Len(similarities) - 1)
        /\ \A i \in 1..Len(response.others) :
               /\ response.others[i].id = similarities[i + 1].artwork.id
               /\ response.others[i].similarity = similarities[i + 1].similarity
               /\ response.others[i].id /= Val(response.artwork)

\* C9 witness: five candidates, the best at exactly 0.85 ('medium'), three
\* alternatives
C9_Witness ==
    /\ phase = "DONE"
    /\ response.outcome = "MATCHED"
    /\ response.similarity_score = Some(Rat(85, 100))
    /\ response.confidence = "medium"
    /\ Len(similarities) = 5
    /\ Len(response.others) = 3

Supplied(value) == value /= None /\ value /= Some("")

\* C10: a request without the image or without a coordinate ends in LOCATING
\* with the 400 validation error, no row geofenced and no picture decoded; a
\* request with an image and both coordinates as numbers (0 included) passes
\* LOCATING.
C10_Validation ==
    /\ phase /= "IDLE"
          /\ (request.image = None \/ ~Supplied(request.latitude)
                \/ ~Supplied(request.longitude)) =>
          /\ phase \in {"LOCATING", "DONE"}
          /\ geo_checks = <<>>
          /\ query_embedding = None
          /\ phase = "DONE" =>
                 /\ response.status = 400
                 /\ response.outcome = "INVALID_REQUEST"
                 /\ trail = << "LOCATING", "INVALID_REQUEST" >>
    /\ phase = "DONE"
          /\ request.image /= None
          /\ Supplied(request.latitude) /\ Supplied(request.longitude) =>
          /\ response.outcome /= "INVALID_REQUEST"
          /\ (Val(request.latitude) \in {"-1", "0", "1", "2"}
                /\ Val(request.longitude) \in {"-1", "0", "1", "2"})
                 => Len(trail) >= 2 /\ trail[2] = "FILTERING"

\* C10 witness: a request with latitude 0 went on to FILTERING
C10_Witness ==
    /\ request.latitude = Some("0")
    /\ phase = "DONE"
    /\ Len(trail) >= 2 /\ trail[2] = "FILTERING"

\* C5: the resolver accepts exactly when the top score is at least 0.70 (a
\* score of exactly 0.70 is MATCHED, any lower one NO_CONFIDENT_MATCH), and
\* the legacy endpoint scan_artwork accepts exactly when it is at least 0.75.
C5_Thresholds ==
    /\ phase = "DONE" /\ query_embedding /= None /\ similarities /= <<>> =>
          /\ (response.outcome = "MATCHED")
                 = (similarities[1].similarity.n * 100
                        >= 70 * similarities[1].similarity.d)
          /\ (response.outcome = "NO_CONFIDENT_MATCH")
                 = (similarities[1].similarity.n * 100
                        < 70 * similarities[1].similarity.d)
    /\ scan_response.best_score /= None =>
          (scan_response.outcome = "MATCHED")
              = (Val(scan_response.best_score).n * 100
                     >= 75 * Val(scan_response.best_score).d)

\* C5 witness: the resolver matched at exactly 0.70 where the legacy endpoint
\* had turned a score of 0.70 down
C5_Witness ==
    /\ phase = "DONE"
    /\ response.outcome = "MATCHED"
    /\ response.similarity_score = Some(Rat(70, 100))
    /\ scan_response.outcome = "NO_CONFIDENT_MATCH"
    /\ scan_response.best_score = Some(Rat(70, 100))

\* C5 (as claimed): every scanning endpoint accepts exactly when the top score
\* is at least 0.70.
C5_EveryEndpointAt070 ==
    /\ phase = "DONE" /\ query_embedding /= None /\ similarities /= <<>> =>
          (response.outcome = "MATCHED")
              = (similarities[1].similarity.n * 100
                     >= 70 * similarities[1].similarity.d)
    /\ scan_response.best_score /= None =>
          (scan_response.outcome = "MATCHED")
              = (Val(scan_response.best_score).n * 100
                     >= 70 * Val(scan_response.best_score).d)

\* an exception was raised inside compute_similarity while an accessible row
\* was scored
ComputeErrorRaised ==
    \E i \in 1..Len(accessible_artworks) :
        compute_similarity_raises(
            Val(query_embedding),
            np_array(accessible_artworks[i].artwork.embedding))

Resolution(req, rows) ==
    IF req.image = None \/ Falsy(req.latitude) \/ Falsy(req.longitude)
    THEN Resp(400, "INVALID_REQUEST", {"error"}, None, None, None, "", <<>>)
    ELSE IF float_raises(Val(req.latitude)) \/ float_raises(Val(req.longitude))
    THEN Resp(500, "SCAN_FAILED", {"error", "message"}, None, None, None, "", <<>>)
    ELSE LET found == Accessible(CheckAll(artworks_query(rows, req.museum_id),
                                          float(Val(req.latitude)),
                                          float(Val(req.longitude))))
         IN IF found = <<>>
            THEN Resp(403, "NO_TARGETS_IN_RANGE",
                      {"error", "message", "access_denied"},
                      None, None, None, "", <<>>)
            ELSE IF generate_embedding_raises(Val(req.image))
            THEN Resp(500, "SCAN_FAILED", {"error", "message"},
                      None, None, None, "", <<>>)
            ELSE Decide(SortDescending(
                     ScoreAll(Fingerprints[Val(req.image)], found)))

\* C21: no step of a resolution changes the catalogue, the sessions or the
\* interaction records, and the response of a finished resolution is the one
\* its request has over the catalogue, whatever scans came before.
C21_ScanWritesNothing ==
    /\ [][phase' /= phase =>
             UNCHANGED << catalogue, sessions, interactions >>]_vars
    /\ [](phase = "DONE" => response = Resolution(request, catalogue))

\* C21 witness: a resolution ends MATCHED after the legacy endpoint recorded
\* an interaction on a session
C21_Witness ==
    /\ phase = "DONE" /\ response.outcome = "MATCHED"
    /\ interactions /= <<>> /\ sessions /= <<>>

\* C26: the picture is decoded only after the geofence filter found an
\* accessible row, and once per request; a request with an undecodable
\* picture and no row in range ends in NO_TARGETS_IN_RANGE with nothing
\* decoded.
C26_FilterBeforeDecode ==
    /\ [](query_embedding /= None =>
             /\ accessible_artworks /= <<>>
             /\ \E i \in 1..Len(trail) : trail[i] = "MATCHING")
    /\ [][query_embedding /= None =>
             query_embedding' \in {query_embedding, None}]_vars
    /\ [](phase = "DONE" /\ request.image /= None /\ user.lat /= None
             /\ ~Val(request.image).ok
             /\ (\A i \in 1..Len(catalogue) : ~InsideGeofence(catalogue[i])) =>
                 /\ response.outcome = "NO_TARGETS_IN_RANGE"
                 /\ query_embedding = None)

\* C26 witness: a request with an undecodable picture ended
\* NO_TARGETS_IN_RANGE over a catalogue that has rows
C26_Witness ==
    /\ phase = "DONE" /\ request.image /= None /\ ~Val(request.image).ok
    /\ catalogue /= <<>>
    /\ response.outcome = "NO_TARGETS_IN_RANGE"

(***************************************************************************)
(* Properties of the visitor sessions                                      *)
(***************************************************************************)
\* C27 (as claimed): once concurrent matched scans and log_interaction
\* requests on a session have all completed, total_interactions is the
\* number of interactions they recorded and artworks_scanned the number of
\* scan interactions.
C27_CountersConsistent ==
    (\A h \in 1..Len(handlers) :
        /\ handlers[h].pc = "done"
        /\ handlers[h].view \in { "scan_artwork", "log_interaction" }) =>
        \A i \in 1..Len(sessions) :
            /\ sessions[i].total_interactions
                   = Count(SelectSeq(interactions, LAMBDA x : x.session = i))
            /\ sessions[i].artworks_scanned
                   = Count(SelectSeq(interactions,
                           LAMBDA x : x.session = i /\ x.interaction_type = "scan"))

\* the interactions of the sessions that have not opted out
Consented(session_rows, interaction_rows) ==
    SelectSeq(interaction_rows, LAMBDA x : ~session_rows[x.session].opted_out)

\* C28 (as claimed): a session that opted out stays opted out with
\* analytics_consent false, and the metrics of calculate_museum_analytics are
\* those of the data without the sessions that opted out.
C28_OptOutExcluded ==
    /\ [][\A i \in 1..Len(sessions) :
             sessions[i].opted_out =>
                 sessions'[i].opted_out /\ ~sessions'[i].analytics_consent]_vars
    /\ [](\A i \in 1..Len(sessions) :
             sessions[i].opted_out =>
                 calculate_museum_analytics(sessions[i].museum, sessions,
                                            interactions)
                   = calculate_museum_analytics(
                         sessions[i].museum, sessions,
                         Consented(sessions, interactions)))

\* C29 (as claimed): every save of an artwork returns, with at most one
\* save nested in it by the receiver, and no failure of the receiver makes
\* the save raise.
C29_SaveTerminates ==
    last_save /= None =>
        /\ Val(last_save).saves <= 2
        /\ ~Val(last_save).raised

\* C30 (as claimed): a task message is run at most 1 + max_retries times, a
\* retry is published with countdown 60 x (retries so far + 1), the row
\* 'Failed to generate embedding after retries' is written only when the
\* retries are exhausted, and embedding and embedding_generated_at are set
\* together.
C30_TaskRetries ==
    /\ \A m \in queue :
           /\ m.retries <= max_retries
           /\ m.countdown = 60 * m.retries
    /\ \A id \in { catalogue[i].id : i \in 1..Len(catalogue) } :
           Count(SelectSeq(system_log, LAMBDA row : row.artwork_id = id)) <= 1 + max_retries
    /\ \A n \in 1..Len(system_log) :
           system_log[n].message = "Failed to generate embedding after retries"
               => system_log[n].retries = max_retries
    /\ \A i \in 1..Len(catalogue) :
           (catalogue[i].embedding.kind /= "none")
               = (catalogue[i].embedding_generated_at /= None)

(***************************************************************************)
(* Properties of the utility functions                                     *)
(***************************************************************************)
Returned(op) == probe.op = op /\ probe.out /= None

\* the tiers whose condition a distance and a radius satisfy, each condition
\* taken with the negation of those before it
Tiers(d, r) ==
    { t \in { "within range", "very close", "walk closer", "head to artwork",
              "navigate to museum", "visit the museum" } :
        CASE t = "within range" -> d <= r
          [] t = "very close" -> d > r /\ d < 50
          [] t = "walk closer" -> d > r /\ d >= 50 /\ d < 100
          [] t = "head to artwork" -> d > r /\ d >= 100 /\ d < 500
          [] t = "navigate to museum" -> d > r /\ d >= 500 /\ d < 1000
          [] t = "visit the museum" -> d > r /\ d >= 1000 }

\* C22: the message of a distance and a radius is the one of the first tier
\* that applies, in the order within range, very close (< 50), walk closer
\* (< 100), head to artwork (< 500), navigate to museum (< 1000), visit the
\* museum; exactly one tier applies to every pair.
C22_DistanceMessageTiers ==
    Returned("get_distance_message") =>
        /\ Tiers(probe.args[1], probe.args[2]) = { Val(probe.out).tier }
        /\ Val(probe.out).tier = "walk closer" =>
               Val(probe.out).shown = Some(probe.args[1] - probe.args[2])

\* C22 witness: 50 m from an artwork of radius 10 m is 'walk closer', no
\* longer 'very close'
C22_Witness ==
    /\ Returned("get_distance_message")
    /\ probe.args = << 50, 10 >>
    /\ Val(probe.out).tier = "walk closer"

\* C24: generate_embedding of unreadable image data raises and returns
\* nothing; of readable data it returns a fingerprint with the three hashes
\* and the whole histogram, never one of them alone.
C24_NoPartialFingerprint ==
    Returned("generate_embedding") =>
        /\ Val(probe.out).raised = ~probe.args[1].ok
        /\ Val(probe.out).raised => Val(probe.out).value = None
        /\ ~Val(probe.out).raised =>
               /\ Val(Val(probe.out).value).kind = "dict"
               /\ Len(Val(Val(probe.out).value).hash) = 3
               /\ Len(Val(Val(probe.out).value).num) = 3 * Bins
               /\ Val(Val(probe.out).value).den > 0

\* C24 witness: the extraction of unreadable data has raised
C24_Witness ==
    /\ Returned("generate_embedding")
    /\ ~probe.args[1].ok
    /\ Val(probe.out).raised

\* C25 (as claimed): the distance from A to B is the distance from B to A,
\* the distance from A to A is 0, and a user at the coordinates of an
\* artwork is inside its geofence for every positive radius.
C25_DistanceSymmetric ==
    Returned("check_geofence") =>
        /\ Val(probe.out).ab.distance = Val(probe.out).ba.distance
        /\ Val(probe.out).aa.distance = Some(0)
        /\ Val(probe.out).aa.is_accessible

(***************************************************************************)
(* Properties of the written catalogue                                     *)
(***************************************************************************)
\* the fingerprints of a picture: the one of generate_embedding, and the
\* vector the task stores
FingerprintsOf(image) ==
    { generate_embedding(image),
      tolist(EmbeddingEngine_generate_embedding(image, TRUE)) }

\* C12 (as claimed): the step that creates an artwork with a readable image
\* leaves the new row with the fingerprint of that image stored, and so
\* with a fingerprint the resolver can read.
C12_FingerprintStoredOnCreate ==
    [][Len(catalogue') = Len(catalogue) + 1 =>
          /\ catalogue'[1].embedding.kind /= "none"
          /\ catalogue'[1].embedding
                 = generate_embedding(Val(catalogue'[1].image))]_vars

\* C13 (as claimed): after any sequence of creations and edits, every stored
\* fingerprint is a fingerprint of the image the row holds now.
C13_FingerprintOfCurrentImage ==
    \A i \in 1..Len(catalogue) :
        catalogue[i].embedding.kind /= "none" =>
            catalogue[i].embedding \in FingerprintsOf(Val(catalogue[i].image))

\* C19 (as claimed): a resolution whose query image is the source image of a
\* candidate found accessible ends MATCHED with score 1.0 and confidence
\* 'high', the best match being a row of that image.
C19_IdenticalImageMatches ==
    phase = "DONE" /\ response.outcome /= "INVALID_REQUEST"
    /\ (\E i \in 1..Len(accessible_artworks) :
           accessible_artworks[i].artwork.image = request.image) =>
        /\ response.outcome = "MATCHED"
        /\ response.similarity_score = Some(One)
        /\ response.confidence = "high"
        /\ \E i \in 1..Len(catalogue) :
               /\ response.artwork = Some(catalogue[i].id)
               /\ catalogue[i].image = request.image

(***************************************************************************)
(* Properties of the similarity scorer                                     *)
(***************************************************************************)
Scored == bench.step = "SCORED"
HasHash(format) == format \in {"full", "hash_only"}
HasHistogram(format) ==
    format \in {"full", "histogram_only", "legacy", "counts", "vector"}

\* the three Hamming distances of two hash triples, added up
HashDistances(fp1, fp2) ==
    Cardinality((fp1.hash[1] \ fp2.hash[1]) \cup (fp2.hash[1] \ fp1.hash[1]))
    + Cardinality((fp1.hash[2] \ fp2.hash[2]) \cup (fp2.hash[2] \ fp1.hash[2]))
    + Cardinality((fp1.hash[3] \ fp2.hash[3]) \cup (fp2.hash[3] \ fp1.hash[3]))

\* sum(h1) * sum(h2) times the sum of the element-wise minima of the two
\* normalized histograms (of equal length)
MinimaScaled(fp1, fp2) ==
    SumSeq([i \in 1..Len(fp1.num) |->
               Min2(fp1.num[i] * SumSeq(fp2.num), fp2.num[i] * SumSeq(fp1.num))])

\* the rational r is the fraction n/d
IsFraction(r, n, d) == r = Rat(n, d)

\* C14: every score the scorer returns lies in [0, 1], whatever the formats
\* of the two fingerprints.
C14_ScoreBounded ==
    Scored =>
        \A r \in {Val(bench.out).ab, Val(bench.out).ba, Val(bench.out).aa} :
            r.d > 0 /\ 0 <= r.n /\ r.n <= r.d

\* C14 witness: a pair with the hashes alone comparable, scored strictly
\* inside the interval
C14_Witness ==
    /\ Scored
    /\ bench.format1 = "hash_only" /\ bench.format2 = "full"
    /\ 0 < Val(bench.out).ab.n /\ Val(bench.out).ab.n < Val(bench.out).ab.d

\* C15: for two fingerprints with hash and histogram the score is
\* 0.6 * (1 - (d1 + d2 + d3) / 3 / 256) + 0.4 * sum_i min(h1[i], h2[i]), the d
\* being the Hamming distances of the three hashes and h1, h2 the histograms
\* divided by their sums.
C15_WeightedCombination ==
    Scored /\ bench.format1 = "full" /\ bench.format2 = "full" =>
        LET a == Val(bench.fp1)
            b == Val(bench.fp2)
            S == SumSeq(a.num) * SumSeq(b.num)
        IN  IsFraction(Val(bench.out).ab,
                       6 * (3 * 256 - HashDistances(a, b)) * S
                           + 4 * (3 * 256) * MinimaScaled(a, b),
                       10 * (3 * 256) * S)

\* C15 witness: two different pictures, whose hash and histogram components
\* differ
C15_Witness ==
    /\ Scored
    /\ bench.format1 = "full" /\ bench.format2 = "full"
    /\ bench.picture1 /= bench.picture2
    /\ HashDistances(Val(bench.fp1), Val(bench.fp2)) > 0
    /\ Val(bench.out).ab /= One

\* C16: a fingerprint with a hash or a histogram scores 1.0 against itself.
C16_Identity ==
    Scored /\ (HasHash(bench.format1) \/ HasHistogram(bench.format1)) =>
        Val(bench.out).aa = One

\* C16 witness: a list of bin counts, which do not add up to 1, compared
\* with itself
C16_Witness ==
    /\ Scored
    /\ bench.format1 = "counts"
    /\ SumSeq(Val(bench.fp1).num) > Val(bench.fp1).den
    /\ Val(bench.out).aa = One

\* C17: the score of a with b is the score of b with a, for fingerprints of
\* every format.
C17_Symmetric ==
    Scored => Val(bench.out).ab = Val(bench.out).ba

\* C17 witness: a full fingerprint and one without histogram of another
\* picture, the same score both ways round, neither 0 nor 1
C17_Witness ==
    /\ Scored
    /\ bench.format1 = "full" /\ bench.format2 = "hash_only"
    /\ bench.picture1 /= bench.picture2
    /\ Val(bench.out).ab = Val(bench.out).ba
    /\ Val(bench.out).ab \notin {Zero, One}

\* C18: when hashes are in both fingerprints and histograms are not, the
\* score is the hash similarity; when histograms (of one length) are in both
\* and hashes are not, it is the histogram intersection; when neither is in
\* both, it is 0.0; a score is returned in every case.
C18_SingleComponent ==
    Scored /\ bench.format1 /= "object0d" /\ bench.format2 /= "object0d" =>
        LET a == Val(bench.fp1)
            b == Val(bench.fp2)
            hashes == HasHash(bench.format1) /\ HasHash(bench.format2)
            hists == HasHistogram(bench.format1) /\ HasHistogram(bench.format2)
        IN  /\ bench.out /= None
            /\ hashes /\ ~hists =>
                   IsFraction(Val(bench.out).ab,
                              3 * 256 - HashDistances(a, b), 3 * 256)
            /\ hists /\ ~hashes /\ Len(a.num) = Len(b.num) =>
                   IsFraction(Val(bench.out).ab, MinimaScaled(a, b),
                              SumSeq(a.num) * SumSeq(b.num))
            /\ ~hashes /\ ~hists => Val(bench.out).ab = Zero

\* C18 witness: a fingerprint without histogram against a full one of
\* another picture
C18_Witness ==
    /\ Scored
    /\ bench.format1 = "hash_only" /\ bench.format2 = "full"
    /\ bench.picture1 /= bench.picture2
    /\ HashDistances(Val(bench.fp1), Val(bench.fp2)) > 0

\* the sum of the bins of one channel (1, 2, 3) of a 96-value histogram
ChannelSum(fp, c) == SumSeq(SubSeq(fp.num, 32 * (c - 1) + 1, 32 * c))

\* C20 (as claimed): the extracted histogram has 3 x 32 = 96 values and the
\* 32 values of each channel add up to 1.
C20_PerChannelNormalized ==
    bench.step \in {"EXTRACTED", "SCORED"} /\ bench.format1 = "full" =>
        /\ Len(Val(bench.fp1).num) = 96
        /\ \A c \in 1..3 : ChannelSum(Val(bench.fp1), c) = Val(bench.fp1).den

====
